---- MODULE Spec2Model ----
(***************************************************************************)
(* A model of io_scene_psk_psa/psa/importer.py: the PSA importer.          *)
(*                                                                         *)
(* import_psa is modelled as a sequential state machine, one action per    *)
(* block of the function, with the exceptions Python raises as the         *)
(* terminal position "error".  The functions on quaternions and vectors    *)
(* are operators, evaluated exactly on the 24 Hurwitz units (the binary    *)
(* tetrahedral group), whose components are kept doubled so that they are  *)
(* integers.                                                               *)
(***************************************************************************)
EXTENDS Integers, Sequences, FiniteSets, TLC

\* ------------------------------------------------------------------ bounds
\* The longest list of bones a PSA file holds.
MaxPsaBones == 3
\* The largest number of bones of the target armature.
MaxArmatureBones == 2
\* The longest list options.sequence_names.
MaxSequences == 2
\* The largest frame_count of a sequence of the file.
MaxFrames == 2

\* Python's None; an optional value x that is set is Some(x), read as v[1].
None == <<>>
Some(x) == <<x>>

\* An exception, with the line of importer.py that raises it.
Raised(type, line) == Some([type |-> type, line |-> line])

\* d[key] = value on a dict.
DictSet(d, key, value) == (key :> value) @@ d

\* ------------------------------------------------------------------ strings
\* A str is the sequence of its code points.
Pelvis == <<80, 101, 108, 118, 105, 115>>
Spine == <<83, 112, 105, 110, 101>>
spine == <<115, 112, 105, 110, 101>>
BoneNameSet == {Pelvis, Spine, spine}

\* str.lower() on ASCII: 'A'..'Z' move to 'a'..'z', the rest stays.
Lower(s) ==
    [i \in DOMAIN s |-> IF s[i] \in 65..90 THEN s[i] + 32 ELSE s[i]]

\* Python's s < t on str: lexicographic on code points, a proper prefix first.
StrLess(s, t) ==
    \E k \in 1..(Len(t)) :
        /\ k - 1 <= Len(s)
        /\ \A j \in 1..(k - 1) : s[j] = t[j]
        /\ (k > Len(s) \/ s[k] < t[k])

\* list(sorted(S)) for a set of str.
RECURSIVE Sorted(_)
Sorted(S) ==
    IF S = {} THEN <<>>
    ELSE LET m == CHOOSE x \in S : \A y \in S \ {x} : StrLess(x, y)
         IN <<m>> \o Sorted(S \ {m})

\* The elements of a list, as a set.
Range(f) == {f[i] : i \in DOMAIN f}

\* list.index(x): the first position holding x (the caller handles ValueError).
ListIndex(list, x) ==
    CHOOSE i \in DOMAIN list : list[i] = x /\ \A j \in 1..(i - 1) : list[j] # x

\* ------------------------------------------------------------------ mathutils
\* A Quaternion <<w, x, y, z>> holds twice its components.
QIdentity == <<2, 0, 0, 0>>
QUnits ==
    {<<2, 0, 0, 0>>, <<-2, 0, 0, 0>>, <<0, 2, 0, 0>>, <<0, -2, 0, 0>>,
     <<0, 0, 2, 0>>, <<0, 0, -2, 0>>, <<0, 0, 0, 2>>, <<0, 0, 0, -2>>}
QHalves == {<<w, x, y, z>> : w \in {-1, 1}, x \in {-1, 1}, y \in {-1, 1}, z \in {-1, 1}}
\* The 24 unit quaternions: closed under product and conjugation.
QGroup == QUnits \cup QHalves

\* The Hamilton product of two 4-tuples of integers.
Hamilton(a, b) ==
    << a[1] * b[1] - a[2] * b[2] - a[3] * b[3] - a[4] * b[4],
       a[1] * b[2] + a[2] * b[1] + a[3] * b[4] - a[4] * b[3],
       a[1] * b[3] - a[2] * b[4] + a[3] * b[1] + a[4] * b[2],
       a[1] * b[4] + a[2] * b[3] - a[3] * b[2] + a[4] * b[1] >>

\* Quaternion.conjugated().
Conjugated(q) == <<q[1], -q[2], -q[3], -q[4]>>

\* The product of two doubled quaternions, doubled.
QMul(a, b) ==
    LET h == Hamilton(a, b)
    IN <<h[1] \div 2, h[2] \div 2, h[3] \div 2, h[4] \div 2>>

\* The quaternion mathutils reads back from a rotation matrix: of q and -q the
\* one with w > 0, or for w = 0 the one whose first non-zero component is > 0.
FromMatrix(q) ==
    LET neg == \/ q[1] < 0
               \/ q[1] = 0 /\ q[2] < 0
               \/ q[1] = 0 /\ q[2] = 0 /\ q[3] < 0
               \/ q[1] = 0 /\ q[2] = 0 /\ q[3] = 0 /\ q[4] < 0
    IN IF neg THEN <<-q[1], -q[2], -q[3], -q[4]>> ELSE q

\* Quaternion.rotate(other): both become rotation matrices, the result is the
\* quaternion of other_matrix * self_matrix.
QRotate(self, other) == FromMatrix(QMul(other, self))

\* Vector.rotate(q): v becomes q v q*, for a unit quaternion q.
VRotate(v, q) ==
    LET h == Hamilton(Hamilton(q, <<0, v[1], v[2], v[3]>>), Conjugated(q))
    IN <<h[2] \div 4, h[3] \div 4, h[4] \div 4>>

VSub(a, b) == <<a[1] - b[1], a[2] - b[2], a[3] - b[3]>>

\* The rotations a matrix_local can hold, as to_quaternion() returns them.
MatrixRotations == {FromMatrix(q) : q \in QGroup}
\* The translations drawn for matrix_local and for the keys.
Translations == {<<0, 0, 0>>, <<0, 0, 1>>, <<1, 2, 3>>}

\* ------------------------------------------------------------------ the pure functions
\* _get_armature_bone_index_for_psa_bone: the first armature bone whose name
\* matches, or None.  Lists are 1-based here: index k stands for Python's k - 1.
_get_armature_bone_index_for_psa_bone(psa_bone_name, armature_bone_names, bone_mapping_mode) ==
    LET matches(k) ==
            IF bone_mapping_mode = "CASE_INSENSITIVE"
            THEN Lower(armature_bone_names[k]) = Lower(psa_bone_name)
            ELSE armature_bone_names[k] = psa_bone_name
        hits == {k \in DOMAIN armature_bone_names : matches(k)}
    IN IF hits = {} THEN None
       ELSE Some(CHOOSE k \in hits : \A j \in hits : k <= j)

\* ImportBone.__init__.
ImportBone(psa_bone, armature_bone) ==
    [psa_bone |-> psa_bone,
     parent |-> None,
     armature_bone |-> armature_bone,
     original_location |-> <<0, 0, 0>>,
     original_rotation |-> QIdentity,
     post_rotation |-> QIdentity,
     fcurves |-> <<>>]

\* The original location and rotation of an ImportBone and its post rotation,
\* from the matrix_local of its armature bone and, when the ImportBone has a
\* parent, of the armature bone's parent.  has_parent: import_bone.parent is set.
OriginalLocation(has_parent, bone, parent) ==
    IF has_parent
    THEN VRotate(VSub(bone.translation, parent.translation), Conjugated(parent.rotation))
    ELSE bone.translation

OriginalRotation(has_parent, bone, parent) ==
    IF has_parent
    THEN Conjugated(QRotate(bone.rotation, Conjugated(parent.rotation)))
    ELSE bone.rotation

\* Line 157 without the conjugation.
PostRotationCopied(original_rotation) == original_rotation

\* Line 157.
PostRotation(original_rotation) == Conjugated(original_rotation)

WithBindPose(import_bone, has_parent, bone, parent) ==
    LET rot == OriginalRotation(has_parent, bone, parent)
    IN [import_bone EXCEPT
            !.original_location = OriginalLocation(has_parent, bone, parent),
            !.original_rotation = rot,
            !.post_rotation = PostRotation(rot)]

\* Lines 47-55 without the branch for a bone that has no parent.
FcurveRotationAsChild(import_bone, key_rotation) ==
    LET quat == QRotate(import_bone.post_rotation, import_bone.original_rotation)
        q == QRotate(import_bone.post_rotation, key_rotation)
    IN QRotate(quat, Conjugated(q))

\* The rotation _calculate_fcurve_data returns.
FcurveRotation(import_bone, key_rotation) ==
    LET quat == QRotate(import_bone.post_rotation, import_bone.original_rotation)
        q == IF import_bone.parent = None
             THEN QRotate(import_bone.post_rotation, Conjugated(key_rotation))
             ELSE QRotate(import_bone.post_rotation, key_rotation)
    IN QRotate(quat, Conjugated(q))

\* The location _calculate_fcurve_data returns.
FcurveLocation(import_bone, key_location) ==
    VRotate(VSub(key_location, import_bone.original_location),
            Conjugated(import_bone.post_rotation))

\* key_data and the result are <<w, x, y, z, lx, ly, lz>>.
_calculate_fcurve_data(import_bone, key_data) ==
    LET quat == FcurveRotation(import_bone, SubSeq(key_data, 1, 4))
        loc == FcurveLocation(import_bone, SubSeq(key_data, 5, 7))
    IN quat \o loc

\* ------------------------------------------------------------------ rationals
\* Frame rates and keyframe times are exact fractions [num, den], den > 0.
RECURSIVE GCD(_, _)
GCD(a, b) == IF b = 0 THEN a ELSE GCD(b, a % b)

Rat(n, d) ==
    LET g == GCD(n, d)
    IN IF n = 0 THEN [num |-> 0, den |-> 1] ELSE [num |-> n \div g, den |-> d \div g]

\* a / b for two frame rates, b # 0.
RatDiv(a, b) == Rat(a, b)
\* x * r for a frame index x.
RatScale(x, r) == Rat(x * r.num, r.den)

\* ------------------------------------------------------------------ state
VARIABLES
    psa_reader,       \* [bones, sequences]: the bones and sequences of the file
    armature_bones,   \* armature_object.data.bones, in order
    options,          \* PsaImportOptions
    scene_fps,        \* context.scene.render.fps
    bpy_data_actions, \* bpy.data.actions, in order of creation
    animation_data,   \* armature_object.animation_data: None or [nla_tracks]
    progress,         \* the calls made on context.window_manager
    pc,               \* the position in import_psa
    error,            \* the exception that ended import_psa, or None
    result,           \* PsaImportResult
    sequences,
    psa_bone_index,   \* the bone the mapping loop is at (1-based)
    psa_to_armature_bone_indices,
    armature_to_psa_bone_indices,
    psa_bone_names,
    duplicate_mappings,
    import_bones,
    sequence_index,   \* the sequence the loop is at (1-based)
    action,           \* None or Some(position in bpy_data_actions)
    target_fps,
    keyframe_time_dilation,
    sequence_data_matrix,
    actions,
    pure_pc,          \* the position of the bind-pose calculation below
    pure_in,
    pure_bone,
    pure_out,
    run_count,        \* how many times import_psa has been called, from 1
    first_run,        \* None, or the host as the first call left it
    export_pc,        \* the position in PsaExportOperator.execute or write_section
    export_in,        \* what the export is asked for
    psa,              \* None, or the Psa that PsaBuilder.build returned
    fp,               \* None while the file is not open, or what was written to it
    export_result     \* [reports, returned] of PsaExportOperator.execute

inputs == <<psa_reader, armature_bones, options, scene_fps>>
host == <<bpy_data_actions, animation_data, progress>>
mapping == <<psa_bone_index, psa_to_armature_bone_indices, armature_to_psa_bone_indices,
             psa_bone_names, duplicate_mappings>>
looping == <<sequence_index, action, target_fps, keyframe_time_dilation,
             sequence_data_matrix, actions>>
pure == <<pure_pc, pure_in, pure_bone, pure_out>>
again == <<run_count, first_run>>
export == <<export_pc, export_in, psa, fp, export_result>>
vars == <<inputs, host, pc, error, result, sequences, mapping, import_bones, looping, pure,
          again, export>>

armature_bone_names == [k \in DOMAIN armature_bones |-> armature_bones[k].name]

\* bytes.decode('windows-1252'): a byte is its code point, but for the bytes
\* 0x80..0x9F, of which 0x80, 0x8A and 0x9A are kept here.
Decode(name) ==
    [i \in DOMAIN name |->
        CASE name[i] = 128 -> 8364
          [] name[i] = 138 -> 352
          [] name[i] = 154 -> 353
          [] OTHER -> name[i]]

\* ------------------------------------------------------------------ import_psa
\* Lines 84-93: the requested sequences are looked up (a name the file does not
\* hold raises KeyError) and the mapping starts.
SequenceLookupRaisesNever == FALSE

\* Line 85: psa_reader.sequences[x] raises KeyError for a name x the file
\* does not hold.
SequenceLookupRaises ==
    \E k \in DOMAIN options.sequence_names :
        options.sequence_names[k] \notin DOMAIN psa_reader.sequences

ResolveSequences ==
    /\ pc = "start"
    /\ IF ~SequenceLookupRaises
       THEN /\ sequences' =
                   LET found == SelectSeq(options.sequence_names,
                                          LAMBDA x : x \in DOMAIN psa_reader.sequences)
                   IN [k \in DOMAIN found |-> psa_reader.sequences[found[k]]]
            /\ pc' = "map"
            /\ error' = error
       ELSE /\ sequences' = sequences
            /\ pc' = "error"
            /\ error' = Raised("KeyError", 85)
    /\ UNCHANGED <<inputs, host, result, mapping, import_bones, looping, pure, again, export>>

\* Line 101: the armature index stored for a mapped PSA bone.  list.index
\* raises ValueError when the list does not hold the value.
IndexRaises(psa_bone_name) == psa_bone_name \notin Range(armature_bone_names)
StoredArmatureIndex(psa_bone_name, armature_bone_index) ==
    ListIndex(armature_bone_names, psa_bone_name)

\* Line 100 without its test: every armature bone counts as free.
AlreadyMappedNever(armature_bone_index) == FALSE

\* Line 100: the armature bone is already mapped to a PSA bone.
AlreadyMapped(armature_bone_index) ==
    armature_bone_index \in DOMAIN armature_to_psa_bone_indices

\* Lines 95-108: one round of the mapping loop.
MapBone ==
    /\ pc = "map"
    /\ psa_bone_index <= Len(psa_reader.bones)
    /\ LET psa_bone_name == Decode(psa_reader.bones[psa_bone_index].name)
           armature_bone_index ==
               _get_armature_bone_index_for_psa_bone(
                   psa_bone_name, armature_bone_names, options.bone_mapping_mode)
           i == armature_bone_index[1]
       IN \/ /\ armature_bone_index # None
             /\ ~AlreadyMapped(i)
             /\ ~IndexRaises(psa_bone_name)
             /\ psa_to_armature_bone_indices' =
                    DictSet(psa_to_armature_bone_indices, psa_bone_index,
                            StoredArmatureIndex(psa_bone_name, i))
             /\ armature_to_psa_bone_indices' =
                    DictSet(armature_to_psa_bone_indices, i, psa_bone_index)
             /\ psa_bone_names' = Append(psa_bone_names, armature_bone_names[i])
             /\ psa_bone_index' = psa_bone_index + 1
             /\ UNCHANGED <<duplicate_mappings, pc, error>>
          \/ /\ armature_bone_index # None
             /\ ~AlreadyMapped(i)
             /\ IndexRaises(psa_bone_name)
             /\ pc' = "error"
             /\ error' = Raised("ValueError", 101)
             /\ UNCHANGED mapping
          \/ /\ armature_bone_index # None
             /\ AlreadyMapped(i)
             /\ duplicate_mappings' =
                    Append(duplicate_mappings,
                           <<psa_bone_index, i, armature_to_psa_bone_indices[i]>>)
             /\ psa_bone_names' = Append(psa_bone_names, armature_bone_names[i])
             /\ psa_bone_index' = psa_bone_index + 1
             /\ UNCHANGED <<psa_to_armature_bone_indices, armature_to_psa_bone_indices,
                            pc, error>>
          \/ /\ armature_bone_index = None
             /\ psa_bone_names' = Append(psa_bone_names, psa_bone_name)
             /\ psa_bone_index' = psa_bone_index + 1
             /\ UNCHANGED <<psa_to_armature_bone_indices, armature_to_psa_bone_indices,
                            duplicate_mappings, pc, error>>
    /\ UNCHANGED <<inputs, host, result, sequences, import_bones, looping, pure, again, export>>

\* Lines 112-116: the warning of one duplicate mapping.
DuplicateWarning(d) ==
    [kind |-> "duplicate",
     psa_bone_index |-> d[1],
     psa_bone_name |-> psa_bone_names[d[1]],
     armature_bone_index |-> d[2],
     armature_bone_name |-> armature_bone_names[d[2]],
     mapped_psa_bone_index |-> d[3],
     mapped_psa_bone_name |-> psa_bone_names[d[3]],
     names |-> <<>>]

\* Line 119, had it taken every bone that was not mapped for a missing one.
missing_bone_names_unmapped ==
    {psa_bone_names[k] : k \in DOMAIN psa_bone_names \ DOMAIN psa_to_armature_bone_indices}

\* Line 119.
missing_bone_names == Range(psa_bone_names) \ Range(armature_bone_names)

\* Lines 121-125: the warning of the missing bones.
MissingWarning(missing) ==
    [kind |-> "missing",
     psa_bone_index |-> 0,
     psa_bone_name |-> <<>>,
     armature_bone_index |-> 0,
     armature_bone_name |-> <<>>,
     mapped_psa_bone_index |-> 0,
     mapped_psa_bone_name |-> <<>>,
     names |-> Sorted(missing)]

\* Lines 110-125, had they looked at the parent indices too.
MappingWarningsWithParentCheck ==
    [k \in DOMAIN duplicate_mappings |-> DuplicateWarning(duplicate_mappings[k])]
    \o (IF Cardinality(missing_bone_names) > 0
        THEN <<MissingWarning(missing_bone_names)>> ELSE <<>>)
    \o (IF \E k \in DOMAIN psa_reader.bones :
               /\ psa_reader.bones[k].parent_index # None
               /\ psa_reader.bones[k].parent_index[1] > k - 1
        THEN <<[MissingWarning({}) EXCEPT !.kind = "malformed"]>> ELSE <<>>)

\* Lines 110-125: the warnings of the mapping, in the order they are appended.
MappingWarnings ==
    [k \in DOMAIN duplicate_mappings |-> DuplicateWarning(duplicate_mappings[k])]
    \o (IF Cardinality(missing_bone_names) > 0
        THEN <<MissingWarning(missing_bone_names)>> ELSE <<>>)

\* Lines 110-126: the warnings, after the mapping loop.
ReportWarnings ==
    /\ pc = "map"
    /\ psa_bone_index > Len(psa_reader.bones)
    /\ result' = [result EXCEPT !.warnings = result.warnings \o MappingWarnings]
    /\ pc' = "import_bones"
    /\ UNCHANGED <<inputs, host, error, sequences, mapping, import_bones, looping, pure,
                   again, export>>

\* The PSA bones that were mapped, in the order of the file.
MappedBones == DOMAIN psa_to_armature_bone_indices

\* Lines 132-141: an ImportBone for every mapped PSA bone, None for the others.
CreateImportBones ==
    /\ pc = "import_bones"
    /\ import_bones' =
           [k \in DOMAIN psa_reader.bones |->
               IF k \notin MappedBones THEN None
               ELSE Some(ImportBone(psa_reader.bones[k],
                                    ListIndex(armature_bone_names, psa_bone_names[k])))]
    /\ pc' = "bind_pose"
    /\ UNCHANGED <<inputs, host, error, result, sequences, mapping, looping, pure, again, export>>

\* import_bones_dict after the loop of lines 132-141: a later bone of the same
\* name replaces an earlier one.
import_bones_dict ==
    [n \in {psa_bone_names[k] : k \in MappedBones} |->
        CHOOSE k \in MappedBones :
            /\ psa_bone_names[k] = n
            /\ \A j \in MappedBones : psa_bone_names[j] = n => j <= k]

\* Line 145 without the test of the name.
HasParent(armature_bone) == armature_bone.parent # None

\* Line 145: the armature bone has a parent whose name is among psa_bone_names.
HasMappedParent(armature_bone) ==
    /\ armature_bone.parent # None
    /\ armature_bones[armature_bone.parent[1]].name \in Range(psa_bone_names)

\* Line 146: the ImportBone of the parent, looked up by name (KeyError when
\* the dictionary does not hold the name).
ParentLookupRaises(armature_bone) ==
    /\ HasMappedParent(armature_bone)
    /\ armature_bones[armature_bone.parent[1]].name \notin DOMAIN import_bones_dict
ParentLink(armature_bone) ==
    IF HasMappedParent(armature_bone)
    THEN Some(import_bones_dict[armature_bones[armature_bone.parent[1]].name])
    ELSE None

\* Lines 144-157 for one ImportBone.
BoundImportBone(import_bone) ==
    LET armature_bone == armature_bones[import_bone.armature_bone]
        linked == [import_bone EXCEPT !.parent = ParentLink(armature_bone)]
    IN WithBindPose(linked, linked.parent # None, armature_bone,
                    IF armature_bone.parent # None
                    THEN armature_bones[armature_bone.parent[1]] ELSE armature_bone)

\* Lines 143-157: the parent and the bind pose of every ImportBone.  A failed
\* lookup ends the loop at that bone, the earlier ones stay as computed.
BindImportBones ==
    /\ pc = "bind_pose"
    /\ LET raising == {k \in MappedBones :
                          ParentLookupRaises(armature_bones[import_bones[k][1].armature_bone])}
           done(k) == \A j \in raising : k < j
       IN /\ import_bones' =
                 [k \in DOMAIN import_bones |->
                     IF import_bones[k] # None /\ done(k)
                     THEN Some(BoundImportBone(import_bones[k][1]))
                     ELSE import_bones[k]]
          /\ pc' = IF raising = {} THEN "progress_begin" ELSE "error"
          /\ error' = IF raising = {} THEN error ELSE Raised("KeyError", 146)
    /\ UNCHANGED <<inputs, host, result, sequences, mapping, looping, pure, again, export>>

\* A call on context.window_manager.
ProgressCall(call, a, b) == [call |-> call, a |-> a, b |-> b]

\* Lines 159-162.
ProgressBegin ==
    /\ pc = "progress_begin"
    /\ progress' = Append(progress, ProgressCall("progress_begin", 0, Len(sequences)))
    /\ actions' = <<>>
    /\ sequence_index' = 1
    /\ pc' = "sequence"
    /\ UNCHANGED <<inputs, bpy_data_actions, animation_data, error, result, sequences,
                   mapping, import_bones, action, target_fps, keyframe_time_dilation,
                   sequence_data_matrix, pure, again, export>>

\* The name of an action: the name asked for and the number of the suffix
\* (.001, .002, ...) Blender adds to keep names unique, 0 for none.
ActionName(name, n) == [name |-> name, suffix |-> n]
ActionNames == {bpy_data_actions[k].name : k \in DOMAIN bpy_data_actions}

\* bpy.data.actions.new(name=...): a new, empty action under a free name.
NewAction(name) ==
    LET n == CHOOSE m \in 0..Len(bpy_data_actions) :
                 /\ ActionName(name, m) \notin ActionNames
                 /\ \A j \in 0..(m - 1) : ActionName(name, j) \in ActionNames
    IN [name |-> ActionName(name, n), fcurves |-> <<>>, psa_export_fps |-> None,
        use_fake_user |-> FALSE]

\* Line 173 when every sequence gets a new action.
ReusesActionNever(action_name) == FALSE

\* Line 173: an action of this name exists and is to be overwritten.
ReusesAction(action_name) ==
    options.should_overwrite /\ ActionName(action_name, 0) \in ActionNames

\* Lines 163-176: the action of the sequence, reused or created.
SequenceAction ==
    /\ pc = "sequence"
    /\ sequence_index <= Len(sequences)
    /\ LET sequence_name == Decode(sequences[sequence_index].name)
           action_name == options.action_name_prefix \o sequence_name
       IN IF ReusesAction(action_name)
          THEN /\ action' = Some(CHOOSE k \in DOMAIN bpy_data_actions :
                                    bpy_data_actions[k].name = ActionName(action_name, 0))
               /\ bpy_data_actions' = bpy_data_actions
          ELSE /\ bpy_data_actions' = Append(bpy_data_actions, NewAction(action_name))
               /\ action' = Some(Len(bpy_data_actions) + 1)
    /\ pc' = "fps"
    /\ UNCHANGED <<inputs, animation_data, progress, error, result, sequences, mapping,
                   import_bones, sequence_index, target_fps, keyframe_time_dilation,
                   sequence_data_matrix, actions, pure, again, export>>

\* Lines 179-187: the target FPS of a sequence.
KnownFpsSource(fps_source) == fps_source \in {"CUSTOM", "SCENE", "SEQUENCE"}
TargetFps(sequence) ==
    CASE options.fps_source = "CUSTOM" -> options.fps_custom
      [] options.fps_source = "SCENE" -> scene_fps
      [] OTHER -> sequence.fps

\* Line 189 with the two rates exchanged.
TimeDilationInverted(target, sequence_fps) == RatDiv(sequence_fps, target)

\* Line 189.
TimeDilation(target, sequence_fps) == RatDiv(target, sequence_fps)

\* Lines 178-189: the target FPS and the time dilation; an unknown source raises
\* ValueError, a sequence of rate 0 makes the division raise ZeroDivisionError.
SequenceFps ==
    /\ pc = "fps"
    /\ LET sequence == sequences[sequence_index]
       IN \/ /\ ~KnownFpsSource(options.fps_source)
             /\ pc' = "error"
             /\ error' = Raised("ValueError", 187)
             /\ UNCHANGED <<target_fps, keyframe_time_dilation>>
          \/ /\ KnownFpsSource(options.fps_source)
             /\ sequence.fps = 0
             /\ target_fps' = Some(TargetFps(sequence))
             /\ pc' = "error"
             /\ error' = Raised("ZeroDivisionError", 189)
             /\ UNCHANGED keyframe_time_dilation
          \/ /\ KnownFpsSource(options.fps_source)
             /\ sequence.fps # 0
             /\ target_fps' = Some(TargetFps(sequence))
             /\ keyframe_time_dilation' = Some(TimeDilation(TargetFps(sequence), sequence.fps))
             /\ pc' = IF options.should_write_keyframes THEN "keyframes" ELSE "metadata"
             /\ error' = error
    /\ UNCHANGED <<inputs, host, result, sequences, mapping, import_bones, sequence_index,
                   action, sequence_data_matrix, actions, pure, again, export>>

\* The rotations of the keys of the file, one per frame and bone in turn.
KeyRotations == << <<1, 1, 1, 1>>, <<0, 2, 0, 0>>, <<-1, 1, -1, 1>>, <<2, 0, 0, 0>> >>

\* The key the file holds for a frame and a bone of a sequence (1-based).
FileKey(sequence, frame, bone) ==
    KeyRotations[((frame + bone) % Len(KeyRotations)) + 1]
        \o <<frame, bone, sequence.frame_count>>

\* PsaReader.read_sequence_data_matrix: the keys of a sequence as [frame][bone].
read_sequence_data_matrix(sequence_name) ==
    LET sequence == psa_reader.sequences[sequence_name]
    IN [f \in 1..sequence.frame_count |->
           [b \in 1..Len(psa_reader.bones) |-> FileKey(sequence, f, b)]]

\* The place among the mapped bones of a mapped PSA bone, from 0.
MappedRank(k) == Cardinality({j \in MappedBones : j < k})

\* Lines 197-213: the seven f-curves of a mapped bone, as positions in
\* action.fcurves; the default PsaConfig removes no track.
BoneFcurves(k) == [c \in 1..7 |-> 7 * MappedRank(k) + c]

\* action.fcurves.new(data_path, index, action_group).
NewFcurve(bone_name, c) ==
    [group |-> bone_name,
     property |-> IF c <= 4 THEN "rotation_quaternion" ELSE "location",
     index |-> IF c <= 4 THEN c - 1 ELSE c - 5,
     keyframe_points |-> <<>>]

\* Lines 219-226 when the converted keys go to a matrix of zeros.
ConvertedMatrixFresh(matrix, bones) ==
    [f \in DOMAIN matrix |->
        [b \in DOMAIN matrix[f] |->
            IF bones[b] = None THEN <<0, 0, 0, 0, 0, 0, 0>>
            ELSE _calculate_fcurve_data(bones[b][1], matrix[f][b])]]

\* Lines 219-226: the keys of every ImportBone become local-space keys.
ConvertedMatrix(matrix, bones) ==
    [f \in DOMAIN matrix |->
        [b \in DOMAIN matrix[f] |->
            IF bones[b] = None THEN matrix[f][b]
            ELSE _calculate_fcurve_data(bones[b][1], matrix[f][b])]]

\* Line 232: the time of the keyframe of a frame (x counts from 0).
KeyframeTime(x, dilation) == RatScale(x, dilation)

\* Lines 229-243: the keyframes of one f-curve of bone b.
KeyframePoints(matrix, b, c, frame_count, dilation) ==
    [f \in 1..frame_count |->
        [co |-> <<KeyframeTime(f - 1, dilation), matrix[f][b][c]>>,
         interpolation |-> "LINEAR"]]

\* Lines 191-248: the f-curves of the action are replaced and keyed.
SequenceKeyframes ==
    /\ pc = "keyframes"
    /\ LET sequence == sequences[sequence_index]
           sequence_name == Decode(sequence.name)
           matrix == ConvertedMatrix(read_sequence_data_matrix(sequence_name), import_bones)
           bone_of(i) == CHOOSE k \in MappedBones : MappedRank(k) = (i - 1) \div 7
           channel_of(i) == ((i - 1) % 7) + 1
           fcurves ==
               [i \in 1..(7 * Cardinality(MappedBones)) |->
                   [NewFcurve(psa_bone_names[bone_of(i)], channel_of(i)) EXCEPT
                       !.keyframe_points =
                           KeyframePoints(matrix, bone_of(i), channel_of(i),
                                          sequence.frame_count, keyframe_time_dilation[1])]]
       IN /\ import_bones' =
                 [k \in DOMAIN import_bones |->
                     IF import_bones[k] = None THEN None
                     ELSE Some([import_bones[k][1] EXCEPT !.fcurves = BoneFcurves(k)])]
          /\ sequence_data_matrix' = matrix
          /\ bpy_data_actions' = [bpy_data_actions EXCEPT ![action[1]].fcurves = fcurves]
    /\ pc' = "metadata"
    /\ UNCHANGED <<inputs, animation_data, progress, error, result, sequences, mapping,
                   sequence_index, action, target_fps, keyframe_time_dilation, actions,
                   pure, again, export>>

\* Lines 250-258: the metadata of the action, and the sequence is done.
SequenceFinish ==
    /\ pc = "metadata"
    /\ bpy_data_actions' =
           [bpy_data_actions EXCEPT ![action[1]] =
               [@ EXCEPT !.psa_export_fps =
                             IF options.should_write_metadata THEN target_fps ELSE @,
                         !.use_fake_user = options.should_use_fake_user]]
    /\ actions' = Append(actions, action[1])
    /\ progress' = Append(progress, ProgressCall("progress_update", sequence_index - 1, 0))
    /\ sequence_index' = sequence_index + 1
    /\ pc' = "sequence"
    /\ UNCHANGED <<inputs, animation_data, error, result, sequences, mapping, import_bones,
                   action, target_fps, keyframe_time_dilation, sequence_data_matrix, pure,
                   again, export>>

\* Lines 265-268: the muted NLA track that stashes an action.
NlaTrack(a) ==
    [name |-> bpy_data_actions[a].name, mute |-> TRUE,
     strips |-> <<[name |-> bpy_data_actions[a].name, start |-> 0, action |-> a]>>]

\* Lines 260-272: the actions are stashed when asked for, and import_psa returns.
StashAndReturn ==
    /\ pc = "sequence"
    /\ sequence_index > Len(sequences)
    /\ animation_data' =
           IF options.should_stash
           THEN Some([nla_tracks |->
                        (IF animation_data = None THEN <<>> ELSE animation_data[1].nla_tracks)
                        \o [k \in DOMAIN actions |-> NlaTrack(actions[k])]])
           ELSE animation_data
    /\ progress' = Append(progress, ProgressCall("progress_end", 0, 0))
    /\ pc' = "done"
    /\ UNCHANGED <<inputs, bpy_data_actions, error, result, sequences, mapping,
                   import_bones, looping, pure, again, export>>

\* import_psa is called again with the same file, armature and options once
\* the first call has returned or raised: its locals start afresh, the host
\* is as the first call left it.
RunAgain ==
    /\ pc \in {"done", "error"}
    /\ run_count = 1
    /\ run_count' = 2
    /\ first_run' = Some([bpy_data_actions |-> bpy_data_actions,
                          animation_data |-> animation_data,
                          pc |-> pc])
    /\ pc' = "start"
    /\ error' = None
    /\ result' = [warnings |-> <<>>]
    /\ sequences' = <<>>
    /\ psa_bone_index' = 1
    /\ psa_to_armature_bone_indices' = <<>>
    /\ armature_to_psa_bone_indices' = <<>>
    /\ psa_bone_names' = <<>>
    /\ duplicate_mappings' = <<>>
    /\ import_bones' = <<>>
    /\ sequence_index' = 1
    /\ action' = None
    /\ target_fps' = None
    /\ keyframe_time_dilation' = None
    /\ sequence_data_matrix' = <<>>
    /\ actions' = <<>>
    /\ UNCHANGED <<inputs, host, pure, export>>

\* ------------------------------------------------------------------ the bind pose alone
\* Lines 148-157 on one armature bone: pure_in holds the bone, its parent when
\* the ImportBone is linked to one, and a key of the file.
PureBind ==
    /\ pure_pc = "bind"
    /\ pure_bone' =
           WithBindPose([ImportBone(None, 1) EXCEPT !.parent = pure_in.parent],
                        pure_in.parent # None, pure_in.bone,
                        IF pure_in.parent # None THEN pure_in.parent[1] ELSE pure_in.bone)
    /\ pure_pc' = "convert"
    /\ UNCHANGED <<inputs, host, pc, error, result, sequences, mapping, import_bones,
                   looping, pure_in, pure_out, again, export>>

\* _calculate_fcurve_data on the key.
PureConvert ==
    /\ pure_pc = "convert"
    /\ pure_out' = _calculate_fcurve_data(pure_bone, pure_in.key_data)
    /\ pure_pc' = "done"
    /\ UNCHANGED <<inputs, host, pc, error, result, sequences, mapping, import_bones,
                   looping, pure_in, pure_bone, again, export>>

\* ------------------------------------------------------------------ PsaExporter
\* Section(): the header of a section, its size and count fields zero until set.
Section(name) == [type |-> "Section", name |-> name, data_size |-> 0, data_count |-> 0]

\* ctypes.sizeof of a record type: the bytes of the fields the file layout
\* gives the records of a section.
sizeof(data_type) ==
    CASE data_type = "Psa.Bone" -> 64 + 4 + 16 + 12
      [] data_type = "Psa.Sequence" -> 64 + 4 + 4 + 4
      [] data_type = "Psa.Key" -> 16 + 12

\* Lines 23-27: the header write_section makes; data_type and data are None
\* when the caller leaves them out.
SectionHeader(name, data_type, data) ==
    IF data_type # None /\ data # None
    THEN [Section(name) EXCEPT !.data_size = sizeof(data_type[1]),
                               !.data_count = Len(data[1])]
    ELSE Section(name)

\* Lines 22-31: what one call of write_section writes to fp, in order.
write_section(name, data_type, data) ==
    <<SectionHeader(name, data_type, data)>> \o (IF data # None THEN data[1] ELSE <<>>)

\* Lines 35-38 with the bone and sequence sections exchanged.
ExportSectionsReordered(p) ==
    <<[name |-> "ANIMHEAD", data_type |-> None, data |-> None],
      [name |-> "ANIMINFO", data_type |-> Some("Psa.Sequence"), data |-> Some(p.sequences)],
      [name |-> "BONENAMES", data_type |-> Some("Psa.Bone"), data |-> Some(p.bones)],
      [name |-> "ANIMKEYS", data_type |-> Some("Psa.Key"), data |-> Some(p.keys)]>>

\* Lines 35-38: the four calls of write_section that export makes, in order.
\* p.sequences is list(self.psa.sequences.values()).
ExportSections(p) ==
    <<[name |-> "ANIMHEAD", data_type |-> None, data |-> None],
      [name |-> "BONENAMES", data_type |-> Some("Psa.Bone"), data |-> Some(p.bones)],
      [name |-> "ANIMINFO", data_type |-> Some("Psa.Sequence"), data |-> Some(p.sequences)],
      [name |-> "ANIMKEYS", data_type |-> Some("Psa.Key"), data |-> Some(p.keys)]>>

\* Whether the bone subset leaves out the parent of a bone it holds.
InvalidBoneSubset(in) ==
    \E k \in in.bone_subset :
        in.bones[k].parent # None /\ in.bones[k].parent[1] \notin in.bone_subset

\* The bones of the subset in the order of the armature (positions from 1).
RECURSIVE SubsetInOrder(_, _)
SubsetInOrder(S, n) ==
    IF n = 0 THEN <<>>
    ELSE SubsetInOrder(S, n - 1) \o (IF n \in S THEN <<n>> ELSE <<>>)

\* The offset of the first key of sequence k: the keys of the sequences before it.
RECURSIVE KeyOffset(_, _, _)
KeyOffset(seqs, k, bone_count) ==
    IF k = 1 THEN 0
    ELSE KeyOffset(seqs, k - 1, bone_count) + seqs[k - 1].frame_count * bone_count

\* The keys of the sequences from sequence k on, frame-major and bone-minor.
RECURSIVE KeysFrom(_, _, _)
KeysFrom(seqs, k, bone_count) ==
    IF k > Len(seqs) THEN <<>>
    ELSE [i \in 1..(seqs[k].frame_count * bone_count) |->
             [type |-> "Psa.Key", sequence |-> seqs[k].name,
              frame |-> (i - 1) \div bone_count, bone |-> (i - 1) % bone_count]]
         \o KeysFrom(seqs, k + 1, bone_count)

\* PsaBuilder.build: RuntimeError for a subset that leaves out an ancestor, or
\* the Psa of the bones of the subset and the requested sequences.
build(in) ==
    IF InvalidBoneSubset(in)
    THEN [raised |-> Some("InvalidBoneSubset"), psa |-> None]
    ELSE LET kept == SubsetInOrder(in.bone_subset, Len(in.bones))
             place(b) == CHOOSE i \in DOMAIN kept : kept[i] = b
             bones == [i \in DOMAIN kept |->
                          [type |-> "Psa.Bone", name |-> in.bones[kept[i]].name,
                           parent_index |->
                               IF in.bones[kept[i]].parent = None THEN None
                               ELSE Some(place(in.bones[kept[i]].parent[1]) - 1)]]
             seqs == [k \in DOMAIN in.sequences |->
                         [type |-> "Psa.Sequence", name |-> in.sequences[k].name,
                          frame_count |-> in.sequences[k].frame_count,
                          fps |-> in.sequences[k].fps,
                          key_offset |-> KeyOffset(in.sequences, k, Len(kept))]]
         IN [raised |-> None,
             psa |-> Some([bones |-> bones, sequences |-> seqs,
                           keys |-> KeysFrom(in.sequences, 1, Len(kept))])]

\* Lines 293-299 when the error of the build is passed over.
AfterBuildIgnoringError(outcome) == "export"

\* Lines 293-299: where execute goes after the build.
AfterBuild(outcome) == IF outcome.raised # None THEN "cancelled" ELSE "export"

\* Lines 272-297: the Psa is built; a RuntimeError of the build is reported and
\* execute returns CANCELLED.
Execute ==
    /\ export_pc = "execute"
    /\ LET outcome == build(export_in[1])
       IN /\ psa' = outcome.psa
          /\ export_result' =
                 IF outcome.raised # None
                 THEN [reports |-> <<[type |-> "ERROR_INVALID_CONTEXT",
                                      message |-> outcome.raised[1]]>>,
                       returned |-> Some("CANCELLED")]
                 ELSE export_result
          /\ export_pc' = AfterBuild(outcome)
    /\ UNCHANGED <<inputs, host, pc, error, result, sequences, mapping, import_bones,
                   looping, pure, again, export_in, fp>>

\* Line 34: the file is opened for writing, and is empty.
ExportOpen ==
    /\ export_pc = "export"
    /\ fp' = Some(<<>>)
    /\ export_pc' = "ANIMHEAD"
    /\ UNCHANGED <<inputs, host, pc, error, result, sequences, mapping, import_bones,
                   looping, pure, again, export_in, psa, export_result>>

\* One of the lines 35-38: call i of write_section, made at position at.
ExportCall(i, at, then) ==
    /\ export_pc = at
    /\ LET c == ExportSections(psa[1])[i]
       IN fp' = Some(fp[1] \o write_section(c.name, c.data_type, c.data))
    /\ export_pc' = then
    /\ UNCHANGED <<inputs, host, pc, error, result, sequences, mapping, import_bones,
                   looping, pure, again, export_in, psa, export_result>>

\* Line 35.
WriteAnimHead == ExportCall(1, "ANIMHEAD", "BONENAMES")
\* Line 36.
WriteBoneNames == ExportCall(2, "BONENAMES", "ANIMINFO")
\* Line 37.
WriteAnimInfo == ExportCall(3, "ANIMINFO", "ANIMKEYS")
\* Line 38.
WriteAnimKeys == ExportCall(4, "ANIMKEYS", "close")

\* The end of the with block and line 301: the file is closed, execute returns.
ExportReturn ==
    /\ export_pc = "close"
    /\ export_result' = [export_result EXCEPT !.returned = Some("FINISHED")]
    /\ export_pc' = "finished"
    /\ UNCHANGED <<inputs, host, pc, error, result, sequences, mapping, import_bones,
                   looping, pure, again, export_in, psa, fp>>

\* A call of write_section by itself, on an open file.
CallWriteSection ==
    /\ export_pc = "write_section"
    /\ LET c == export_in[1]
       IN fp' = Some(fp[1] \o write_section(c.name, c.data_type, c.data))
    /\ export_pc' = "written"
    /\ UNCHANGED <<inputs, host, pc, error, result, sequences, mapping, import_bones,
                   looping, pure, again, export_in, psa, export_result>>

\* ------------------------------------------------------------------ the initial states
walk == <<119, 97, 108, 107>>
run == <<114, 117, 110>>
jump == <<106, 117, 109, 112>>

\* The frame rates a sequence of the file is given.
SequenceRates == {0, 24, 30}

\* All lists over S of at most n elements.
ListsUpTo(S, n) == UNION {[1..m -> S] : m \in 0..n}

\* The bones of a file: any names; the parent indices (Python's, from 0) either
\* chain every bone to the one before it or point each bone at the one after it.
PsaBone(names, k, shape) ==
    [name |-> names[k],
     parent_index |->
         IF shape = "chain"
         THEN (IF k = 1 THEN None ELSE Some(k - 2))
         ELSE (IF k = Len(names) THEN None ELSE Some(k)),
     rotation |-> QIdentity,
     location |-> <<0, 0, 0>>]
PsaBoneLists ==
    {[k \in DOMAIN names |-> PsaBone(names, k, shape)] :
        names \in ListsUpTo(BoneNameSet, MaxPsaBones), shape \in {"chain", "forward"}}

\* The bones of an armature: names are unique, a parent comes before its child.
ArmatureRotations == << <<1, 1, 1, 1>>, <<0, 2, 0, 0>>, <<1, -1, 1, 1>>, <<2, 0, 0, 0>> >>
ArmatureBone(name, parent, k) ==
    [name |-> name, parent |-> parent,
     rotation |-> ArmatureRotations[(k % Len(ArmatureRotations)) + 1],
     translation |-> <<0, k, 1>>]
ArmatureBoneLists ==
    UNION {
        {[k \in 1..m |-> ArmatureBone(names[k], parents[k], k)] :
            names \in {f \in [1..m -> BoneNameSet] :
                          \A i, j \in 1..m : f[i] = f[j] => i = j},
            parents \in {f \in [1..m -> {None} \cup {Some(j) : j \in 1..m}] :
                            \A i \in 1..m : f[i] # None => f[i][1] < i}} :
        m \in 0..MaxArmatureBones}

Sequence(name, fps, frame_count) == [name |-> name, fps |-> fps, frame_count |-> frame_count]

\* PsaImportOptions.__init__, but for the fields the caller sets.
PsaImportOptions(sequence_names, mode, fps_source, overwrite, keyframes, stash) ==
    [should_use_fake_user |-> FALSE,
     should_stash |-> stash,
     sequence_names |-> sequence_names,
     should_overwrite |-> overwrite,
     should_write_keyframes |-> keyframes,
     should_write_metadata |-> TRUE,
     action_name_prefix |-> <<>>,
     bone_mapping_mode |-> mode,
     fps_source |-> fps_source,
     fps_custom |-> 60]

\* No export is going on.
ExportAtRest ==
    /\ export_pc = "idle"
    /\ export_in = None
    /\ psa = None
    /\ fp = None
    /\ export_result = [reports |-> <<>>, returned |-> None]

\* The locals of import_psa before it runs, and the other specifications at rest.
InitLocals ==
    /\ pc = "start"
    /\ error = None
    /\ result = [warnings |-> <<>>]
    /\ sequences = <<>>
    /\ psa_bone_index = 1
    /\ psa_to_armature_bone_indices = <<>>
    /\ armature_to_psa_bone_indices = <<>>
    /\ psa_bone_names = <<>>
    /\ duplicate_mappings = <<>>
    /\ import_bones = <<>>
    /\ sequence_index = 1
    /\ action = None
    /\ target_fps = None
    /\ keyframe_time_dilation = None
    /\ sequence_data_matrix = <<>>
    /\ actions = <<>>
    /\ progress = <<>>
    /\ pure_pc = "idle"
    /\ pure_in = None
    /\ pure_bone = None
    /\ pure_out = None
    /\ run_count = 1
    /\ first_run = None
    /\ ExportAtRest

\* An action left by an earlier import of the sequence walk.
OldAction ==
    [name |-> ActionName(walk, 0),
     fcurves |-> <<[NewFcurve(Pelvis, 5) EXCEPT !.keyframe_points =
                       <<[co |-> <<Rat(0, 1), 7>>, interpolation |-> "LINEAR"]>>]>>,
     psa_export_fps |-> Some(24),
     use_fake_user |-> FALSE]

\* Any bones and armature, one sequence imported with the default options.
InitMapping ==
    /\ \E bones \in PsaBoneLists :
           psa_reader = [bones |-> bones,
                         sequences |-> (walk :> Sequence(walk, 30, 1))
                                       @@ (run :> Sequence(run, 30, 1))]
    /\ armature_bones \in ArmatureBoneLists
    /\ \E mode \in {"EXACT", "CASE_INSENSITIVE"} :
           options = PsaImportOptions(<<walk>>, mode, "SEQUENCE", FALSE, TRUE, FALSE)
    /\ scene_fps = 24
    /\ bpy_data_actions = <<>>
    /\ animation_data = None
    /\ InitLocals

\* The bones of the example; any requested sequences and options.
InitSequences ==
    /\ \E fps \in SequenceRates, frame_count \in 0..MaxFrames :
           psa_reader =
               [bones |-> [k \in 1..3 |-> PsaBone(<<Pelvis, Spine, spine>>, k, "chain")],
                sequences |-> (walk :> Sequence(walk, fps, frame_count))
                              @@ (run :> Sequence(run, 30, 1))]
    /\ armature_bones = <<ArmatureBone(Pelvis, None, 1), ArmatureBone(Spine, Some(1), 2)>>
    /\ \E names \in ListsUpTo({walk, run, jump}, MaxSequences),
          fps_source \in {"CUSTOM", "SCENE", "SEQUENCE", "TIMELINE"},
          overwrite \in BOOLEAN, keyframes \in BOOLEAN, stash \in BOOLEAN :
           options = PsaImportOptions(names, "CASE_INSENSITIVE", fps_source,
                                      overwrite, keyframes, stash)
    /\ scene_fps = 24
    /\ bpy_data_actions \in {<<>>, <<OldAction>>}
    /\ animation_data = None
    /\ InitLocals

Init == InitMapping \/ InitSequences

Next ==
    \/ ResolveSequences
    \/ MapBone
    \/ ReportWarnings
    \/ CreateImportBones
    \/ BindImportBones
    \/ ProgressBegin
    \/ SequenceAction
    \/ SequenceFps
    \/ SequenceKeyframes
    \/ SequenceFinish
    \/ StashAndReturn

Spec == Init /\ [][Next]_vars

\* The bind pose and the key conversion on any armature bone, parent and key.
PureMatrices == [rotation : MatrixRotations, translation : Translations]
InitPure ==
    /\ pure_pc = "bind"
    /\ \E bone \in PureMatrices, parent \in {None} \cup {Some(m) : m \in PureMatrices},
          rot \in QGroup, loc \in Translations :
           pure_in = [bone |-> bone, parent |-> parent, key_data |-> rot \o loc]
    /\ pure_bone = None
    /\ pure_out = None
    /\ pc = "idle"
    /\ error = None
    /\ result = [warnings |-> <<>>]
    /\ psa_reader = [bones |-> <<>>, sequences |-> <<>>]
    /\ armature_bones = <<>>
    /\ options = PsaImportOptions(<<>>, "EXACT", "SEQUENCE", FALSE, TRUE, FALSE)
    /\ scene_fps = 24
    /\ bpy_data_actions = <<>>
    /\ animation_data = None
    /\ sequences = <<>>
    /\ psa_bone_index = 1
    /\ psa_to_armature_bone_indices = <<>>
    /\ armature_to_psa_bone_indices = <<>>
    /\ psa_bone_names = <<>>
    /\ duplicate_mappings = <<>>
    /\ import_bones = <<>>
    /\ sequence_index = 1
    /\ action = None
    /\ target_fps = None
    /\ keyframe_time_dilation = None
    /\ sequence_data_matrix = <<>>
    /\ actions = <<>>
    /\ progress = <<>>
    /\ run_count = 1
    /\ first_run = None
    /\ ExportAtRest

NextPure == PureBind \/ PureConvert

SpecPure == InitPure /\ [][NextPure]_vars

\* import_psa called twice on the bones of the example.
NextTwice == Next \/ RunAgain

SpecTwice == InitSequences /\ [][NextTwice]_vars

\* The bones of an armature to export: a parent comes before its child.
ExportBoneNames == <<Pelvis, Spine, spine, Pelvis \o Spine>>
ExportBoneLists ==
    UNION {
        {[k \in 1..m |-> [name |-> ExportBoneNames[((k - 1) % Len(ExportBoneNames)) + 1],
                          parent |-> parents[k]]] :
            parents \in {f \in [1..m -> {None} \cup {Some(j) : j \in 1..m}] :
                            \A i \in 1..m : f[i] # None => f[i][1] < i}} :
        m \in 0..MaxPsaBones}

\* The sequences to export: the names are the keys of a dictionary.
ExportSequenceLists ==
    {seqs \in ListsUpTo([name : {walk, run, jump}, frame_count : 0..MaxFrames, fps : {30}],
                        MaxSequences) :
        \A i, j \in DOMAIN seqs : seqs[i].name = seqs[j].name => i = j}

\* The records a lone call of write_section is given.
Datum == {[type |-> "Psa.Key", sequence |-> walk, frame |-> 0, bone |-> b] : b \in 0..1}

\* The import and the bind pose at rest.
ImportAtRest ==
    /\ pc = "idle"
    /\ error = None
    /\ result = [warnings |-> <<>>]
    /\ psa_reader = [bones |-> <<>>, sequences |-> <<>>]
    /\ armature_bones = <<>>
    /\ options = PsaImportOptions(<<>>, "EXACT", "SEQUENCE", FALSE, TRUE, FALSE)
    /\ scene_fps = 24
    /\ bpy_data_actions = <<>>
    /\ animation_data = None
    /\ sequences = <<>>
    /\ psa_bone_index = 1
    /\ psa_to_armature_bone_indices = <<>>
    /\ armature_to_psa_bone_indices = <<>>
    /\ psa_bone_names = <<>>
    /\ duplicate_mappings = <<>>
    /\ import_bones = <<>>
    /\ sequence_index = 1
    /\ action = None
    /\ target_fps = None
    /\ keyframe_time_dilation = None
    /\ sequence_data_matrix = <<>>
    /\ actions = <<>>
    /\ progress = <<>>
    /\ run_count = 1
    /\ first_run = None
    /\ pure_pc = "idle"
    /\ pure_in = None
    /\ pure_bone = None
    /\ pure_out = None

\* PsaExportOperator.execute on any armature, bone subset and sequences, or
\* one call of write_section with any of its arguments given or left out.
InitExport ==
    /\ ImportAtRest
    /\ psa = None
    /\ export_result = [reports |-> <<>>, returned |-> None]
    /\ \/ /\ export_pc = "execute"
          /\ fp = None
          /\ \E bones \in ExportBoneLists, seqs \in ExportSequenceLists :
                \E subset \in SUBSET DOMAIN bones :
                    export_in = Some([bones |-> bones, bone_subset |-> subset,
                                      sequences |-> seqs])
       \/ /\ export_pc = "write_section"
          /\ fp = Some(<<>>)
          /\ \E data_type \in {None, Some("Psa.Bone"), Some("Psa.Key")},
                data \in {None} \cup {Some(d) : d \in ListsUpTo(Datum, MaxFrames)} :
                export_in = Some([name |-> "ANIMKEYS", data_type |-> data_type,
                                  data |-> data])

NextExport ==
    \/ Execute
    \/ ExportOpen
    \/ WriteAnimHead
    \/ WriteBoneNames
    \/ WriteAnimInfo
    \/ WriteAnimKeys
    \/ ExportReturn
    \/ CallWriteSection

SpecExport == InitExport /\ [][NextExport]_vars

\* ------------------------------------------------------------------ the claims
\* The name of PSA bone k, and whether it matches the name of armature bone t
\* under the mapping mode.
PsaName(k) == Decode(psa_reader.bones[k].name)
NameMatches(k, t) ==
    IF options.bone_mapping_mode = "CASE_INSENSITIVE"
    THEN Lower(PsaName(k)) = Lower(armature_bones[t].name)
    ELSE PsaName(k) = armature_bones[t].name

\* The PSA bones the mapping loop has been through.
Processed == 1..(psa_bone_index - 1)
\* The mapping loop has ended and its warnings are in the result.
MappingReported ==
    /\ pc \notin {"start", "map"}
    /\ pc = "error" => error[1].line > 126
\* The ImportBones are built and bound.
BonesBound ==
    /\ pc \notin {"start", "map", "import_bones", "bind_pose"}
    /\ pc = "error" => error[1].line > 157
\* The duplicate-mapping records of PSA bone k.
DuplicatesOf(k) == {d \in DOMAIN duplicate_mappings : duplicate_mappings[d][1] = k}
\* The warnings of a kind.
WarningsOf(kind) == {w \in DOMAIN result.warnings : result.warnings[w].kind = kind}

\* The example of the spec: PSA bones Pelvis, Spine, spine on the armature
\* Pelvis, Spine without regard to case.
IsExample ==
    /\ [k \in DOMAIN psa_reader.bones |-> PsaName(k)] = <<Pelvis, Spine, spine>>
    /\ armature_bone_names = <<Pelvis, Spine>>
    /\ options.bone_mapping_mode = "CASE_INSENSITIVE"

\* C1: at every point of the mapping, an armature bone is claimed by at most
\* one PSA bone, the first of the file whose name matches it; a later PSA bone
\* that matches a claimed armature bone is not mapped, gets no ImportBone and
\* has exactly one duplicate record (itself, the armature bone, the claimant);
\* no other bone has one.  In the example Spine maps to the second armature
\* bone, spine is recorded as a duplicate of the second PSA bone and no bone
\* is missing.
C1_EarliestClaimWins ==
    /\ \A t \in DOMAIN armature_to_psa_bone_indices :
           LET s == armature_to_psa_bone_indices[t]
           IN /\ s \in Processed /\ s \in MappedBones
              /\ NameMatches(s, t)
              /\ \A k \in Processed : NameMatches(k, t) => s <= k
    /\ \A k \in MappedBones :
           Cardinality({t \in DOMAIN armature_to_psa_bone_indices :
                            armature_to_psa_bone_indices[t] = k}) = 1
    /\ \A j, k \in MappedBones :
           psa_to_armature_bone_indices[j] = psa_to_armature_bone_indices[k] => j = k
    /\ \A k \in Processed :
           LET claimed == {t \in DOMAIN armature_to_psa_bone_indices :
                               NameMatches(k, t) /\ armature_to_psa_bone_indices[t] < k}
           IN IF claimed # {}
              THEN /\ k \notin MappedBones
                   /\ Cardinality(DuplicatesOf(k)) = 1
                   /\ \A d \in DuplicatesOf(k) :
                          /\ duplicate_mappings[d][2] \in claimed
                          /\ duplicate_mappings[d][3] =
                                 armature_to_psa_bone_indices[duplicate_mappings[d][2]]
                   /\ k \in DOMAIN import_bones => import_bones[k] = None
              ELSE DuplicatesOf(k) = {}
    /\ (IsExample /\ MappingReported) =>
           /\ psa_to_armature_bone_indices = (1 :> 1) @@ (2 :> 2)
           /\ duplicate_mappings = << <<3, 2, 2>> >>
           /\ result.warnings = <<DuplicateWarning(<<3, 2, 2>>)>>
           /\ WarningsOf("missing") = {}

\* C1 happens: the example has been imported.
C1_Witness == IsExample /\ pc = "done" /\ Len(duplicate_mappings) = 1

\* C2: the armature index stored for a mapped PSA bone is the first armature
\* bone whose name matches it, the one the reverse map records as claimed.
C2_StoredIndexIsFirstMatch ==
    \A k \in MappedBones :
        LET t == psa_to_armature_bone_indices[k]
        IN /\ t \in DOMAIN armature_bones
           /\ NameMatches(k, t)
           /\ \A j \in 1..(t - 1) : ~NameMatches(k, j)
           /\ t \in DOMAIN armature_to_psa_bone_indices
           /\ armature_to_psa_bone_indices[t] = k

\* C3: the mapping raises nothing, whatever the names: it ends with its
\* problems as warnings only, and the import goes on to the end with an
\* ImportBone for exactly the PSA bones that matched an unclaimed armature bone.
C3_MappingNeverRaises ==
    /\ pc = "error" => error[1].line \notin 88..157
    /\ pc = "done" =>
           \A k \in DOMAIN psa_reader.bones :
               import_bones[k] # None <=>
                   \E t \in DOMAIN armature_bones :
                       /\ NameMatches(k, t)
                       /\ \A j \in 1..(k - 1) : ~NameMatches(j, t)

\* C4: the warning of the missing bones comes at most once, and only when a
\* PSA bone matches no armature bone; it lists the names of exactly those
\* bones, each once, in increasing order; the name of a bone rejected as a
\* duplicate and the name of an armature bone are never in it.
C4_MissingBonesWarning ==
    MappingReported =>
        LET unmatched == {PsaName(k) : k \in {j \in DOMAIN psa_reader.bones :
                             \A t \in DOMAIN armature_bones : ~NameMatches(j, t)}}
        IN /\ Cardinality(WarningsOf("missing")) <= 1
           /\ WarningsOf("missing") # {} <=> unmatched # {}
           /\ \A w \in WarningsOf("missing") :
                  LET names == result.warnings[w].names
                  IN /\ Range(names) = unmatched
                     /\ \A i, j \in DOMAIN names : i < j => StrLess(names[i], names[j])
                     /\ \A d \in DOMAIN duplicate_mappings :
                            PsaName(duplicate_mappings[d][1]) \notin Range(names)
                     /\ Range(names) \cap Range(armature_bone_names) = {}

\* C4 happens: two bones are missing and are listed in another order than
\* the file's.
C4_Witness ==
    /\ pc = "done"
    /\ \E w \in WarningsOf("missing") :
           /\ Len(result.warnings[w].names) = 2
           /\ result.warnings[w].names[1] = PsaName(2)
           /\ result.warnings[w].names[2] = PsaName(1)

\* A PSA bone whose parent index points behind the bone itself (the bone at
\* position k has Python's index k - 1).
ForwardParent ==
    \E k \in DOMAIN psa_reader.bones :
        /\ psa_reader.bones[k].parent_index # None
        /\ psa_reader.bones[k].parent_index[1] > k - 1

\* C5, as the spec has it: a list of PSA bones with a forward parent index is
\* flagged, by an error or by a warning about the skeleton.
C5_ForwardParentFlagged ==
    (ForwardParent /\ MappingReported) =>
        \/ pc = "error"
        \/ \E w \in DOMAIN result.warnings :
               result.warnings[w].kind \notin {"duplicate", "missing"}

\* C5, amended: the parent indices of the PSA bones play no part in the
\* mapping.  Its warnings are one per duplicate mapping and at most one for
\* the missing bones, with or without a forward parent index, and no error
\* is raised on account of a parent index: the import ends.
C5_ParentIndexIgnored ==
    /\ MappingReported =>
           /\ Len(result.warnings) =
                  Len(duplicate_mappings) + (IF missing_bone_names = {} THEN 0 ELSE 1)
           /\ \A w \in DOMAIN result.warnings :
                  result.warnings[w].kind \in {"duplicate", "missing"}
           /\ Cardinality(WarningsOf("duplicate")) = Len(duplicate_mappings)
    /\ pc = "error" => error[1].line \in {85, 101, 187, 189}

\* C5 happens: a list with a forward parent index is imported without a warning.
C5_Witness == ForwardParent /\ pc = "done" /\ result.warnings = <<>>

\* The armature bone an ImportBone stands for: the one its PSA bone claimed.
ClaimedBy(k) == CHOOSE t \in DOMAIN armature_to_psa_bone_indices :
                    armature_to_psa_bone_indices[t] = k

\* C6: once the ImportBones are bound, the parent of the ImportBone of a
\* mapped PSA bone is set exactly when its armature bone has a parent that a
\* PSA bone claimed, and is then the ImportBone of that claimant; the lookup
\* of the parent by name never raises.
C6_ParentLink ==
    /\ pc = "error" => error[1].line # 146
    /\ BonesBound =>
           \A k \in MappedBones :
               LET bone == import_bones[k][1]
                   t == ClaimedBy(k)
                   parent == armature_bones[t].parent
               IN /\ bone.armature_bone = t
                  /\ bone.parent # None <=>
                         (parent # None /\ parent[1] \in DOMAIN armature_to_psa_bone_indices)
                  /\ bone.parent # None =>
                         /\ bone.parent[1] = armature_to_psa_bone_indices[parent[1]]
                         /\ import_bones[bone.parent[1]] # None
                         /\ import_bones[bone.parent[1]][1].armature_bone = parent[1]

\* C6 happens: of two mapped bones one has its parent linked, next to a
\* duplicate; and a bone whose armature parent is not mapped is a root.
C6_Witness ==
    /\ pc = "done"
    /\ duplicate_mappings # <<>>
    /\ \E k \in MappedBones : import_bones[k][1].parent # None

C6_WitnessRoot ==
    /\ pc = "done"
    /\ \E k \in MappedBones :
           /\ import_bones[k][1].parent = None
           /\ armature_bones[import_bones[k][1].armature_bone].parent # None

\* The bind pose of the bone of pure_in has been computed.
PureBound == pure_pc \in {"convert", "done"}

\* C7: an ImportBone without a parent has the translation and the rotation of
\* its armature bone as original location and rotation, and the post rotation
\* of every ImportBone is the conjugate of its original rotation.  A root of
\* rotation identity at (0, 0, 1) gets (0, 0, 1), identity and identity.
C7_RootBindPose ==
    PureBound =>
        /\ pure_bone.parent = None =>
               /\ pure_bone.original_location = pure_in.bone.translation
               /\ pure_bone.original_rotation = pure_in.bone.rotation
        /\ pure_bone.post_rotation[1] = pure_bone.original_rotation[1]
        /\ \A c \in 2..4 : pure_bone.post_rotation[c] = -pure_bone.original_rotation[c]
        /\ (/\ pure_bone.parent = None
            /\ pure_in.bone = [rotation |-> <<2, 0, 0, 0>>, translation |-> <<0, 0, 1>>]) =>
               /\ pure_bone.original_location = <<0, 0, 1>>
               /\ pure_bone.original_rotation = <<2, 0, 0, 0>>
               /\ pure_bone.post_rotation = <<2, 0, 0, 0>>

\* C7 happens: a root whose rotation is a third of a turn has been bound.
C7_Witness ==
    /\ PureBound
    /\ pure_bone.parent = None
    /\ pure_bone.original_rotation = <<1, 1, 1, 1>>
    /\ pure_bone.post_rotation = <<1, -1, -1, -1>>
    /\ pure_bone.original_location = <<0, 0, 1>>

\* The key of pure_in is the rest pose of a source bone that equals the bind
\* pose of the target bone.
KeyIsBindPose ==
    /\ SubSeq(pure_in.key_data, 1, 4) = pure_bone.original_rotation
    /\ SubSeq(pure_in.key_data, 5, 7) = pure_bone.original_location
IdentityTransform == <<2, 0, 0, 0, 0, 0, 0>>

\* C8, as the spec has it: the key that equals the bind pose converts to the
\* identity transform, for a root and for a bone with a parent.
C8_RestKeyIsIdentity ==
    (pure_pc = "done" /\ KeyIsBindPose) => pure_out = IdentityTransform

\* C8, amended: the key that equals the bind pose converts to the identity
\* transform for an ImportBone with a parent.  For a root it converts to the
\* zero translation and to the rotation of the bind rotation applied twice;
\* the key that converts to the identity has the bind location and the
\* conjugate of the bind rotation.
C8_RestKeyByParent ==
    pure_pc = "done" =>
        /\ (pure_bone.parent # None /\ KeyIsBindPose) => pure_out = IdentityTransform
        /\ (pure_bone.parent = None /\ KeyIsBindPose) =>
               /\ SubSeq(pure_out, 5, 7) = <<0, 0, 0>>
               /\ SubSeq(pure_out, 1, 4) =
                      FromMatrix(QMul(pure_bone.original_rotation, pure_bone.original_rotation))
        /\ (/\ pure_bone.parent = None
            /\ SubSeq(pure_in.key_data, 1, 4) = Conjugated(pure_bone.original_rotation)
            /\ SubSeq(pure_in.key_data, 5, 7) = pure_bone.original_location) =>
               pure_out = IdentityTransform

\* C8 happens: a bone with a parent, turned against it and away from it, has
\* converted the key of its own bind pose.
C8_Witness ==
    /\ pure_pc = "done"
    /\ pure_bone.parent # None
    /\ KeyIsBindPose
    /\ pure_bone.original_rotation \notin {<<2, 0, 0, 0>>, <<-2, 0, 0, 0>>}
    /\ pure_bone.original_location # <<0, 0, 0>>
    /\ pure_out = IdentityTransform

\* The sequences whose action is complete, with the action of each; and the
\* sequence whose keyframes have just been written.
KeyedSequences ==
    {<<sequences[k], actions[k]>> : k \in DOMAIN actions}
    \cup (IF pc = "metadata" THEN {<<sequences[sequence_index], action[1]>>} ELSE {})

\* C9: the keyframe of frame x of an imported sequence is at time
\* x * (target / sequence.fps), with target the custom rate, the rate of the
\* scene or the rate of the sequence as options.fps_source says; its value is
\* the converted key of the file, whatever the source of the rate.  With a rate
\* of 30 and a custom rate of 60 the dilation is 2 and frame 5 is at time 10.
C9_KeyframeTimes ==
    /\ options.should_write_keyframes =>
           \A sa \in KeyedSequences :
               LET sequence == sa[1]
                   fcurves == bpy_data_actions[sa[2]].fcurves
                   target == IF options.fps_source = "CUSTOM" THEN options.fps_custom
                             ELSE IF options.fps_source = "SCENE" THEN scene_fps
                             ELSE sequence.fps
               IN /\ Len(fcurves) = 7 * Cardinality(MappedBones)
                  /\ \A k \in MappedBones, c \in 1..7 :
                         LET points == fcurves[import_bones[k][1].fcurves[c]].keyframe_points
                         IN /\ Len(points) = sequence.frame_count
                            /\ \A f \in DOMAIN points :
                                   /\ points[f].co[1].den > 0
                                   /\ points[f].co[1].num * sequence.fps
                                          = (f - 1) * target * points[f].co[1].den
                                   /\ options.fps_source = "SEQUENCE" =>
                                          points[f].co[1] = [num |-> f - 1, den |-> 1]
                                   /\ points[f].co[2] =
                                          _calculate_fcurve_data(
                                              import_bones[k][1], FileKey(sequence, f, k))[c]
    /\ TimeDilation(60, 30) = [num |-> 2, den |-> 1]
    /\ KeyframeTime(5, TimeDilation(60, 30)) = [num |-> 10, den |-> 1]

\* C9 happens: a sequence of rate 30 is keyed at the custom rate 60, its
\* second frame at time 2.
C9_Witness ==
    /\ pc = "done"
    /\ options.fps_source = "CUSTOM"
    /\ options.should_write_keyframes
    /\ \E k \in DOMAIN actions :
           /\ sequences[k].fps = 30
           /\ sequences[k].frame_count = 2
           /\ bpy_data_actions[actions[k]].fcurves[1].keyframe_points[2].co[1]
                  = [num |-> 2, den |-> 1]

\* C10: with an unknown options.fps_source the import ends with the error of
\* line 187, whatever sequences are requested, and when it is raised no action
\* has been created or reused and no f-curve or keyframe has been touched.
C10_UnknownFpsSourceFirst ==
    /\ (~KnownFpsSource(options.fps_source) /\ pc \notin {"start", "error"}) =>
           /\ pc # "done"
           /\ action = None
    /\ (pc = "error" /\ error[1].line = 187) =>
           /\ action = None
           /\ bpy_data_actions \in {<<>>, <<OldAction>>}

\* The positions of PsaExportOperator.execute, and of export within it.
InExecute ==
    export_pc \in {"execute", "export", "ANIMHEAD", "BONENAMES", "ANIMINFO", "ANIMKEYS",
                   "close", "finished", "cancelled"}

\* The names of the section headers among what was written, in order.
SectionNames(out) ==
    LET headers == SelectSeq(out, LAMBDA item : item.type = "Section")
    IN [i \in DOMAIN headers |-> headers[i].name]

IsPrefix(a, b) == Len(a) <= Len(b) /\ a = SubSeq(b, 1, Len(a))

\* C11: the file PsaExporter.export produces is the ANIMHEAD header alone, the
\* BONENAMES header and the bones of the Psa, the ANIMINFO header and its
\* sequences, the ANIMKEYS header and its keys, in this order and nothing
\* else, whichever of the lists are empty; while the file is being written
\* the sections in it are the first ones of this order.
C11_FourSectionsInOrder ==
    InExecute /\ fp # None =>
        LET out == fp[1]
            nb == Len(psa[1].bones)
            ns == Len(psa[1].sequences)
            nk == Len(psa[1].keys)
            IsHeader(i, name) == out[i].type = "Section" /\ out[i].name = name
        IN /\ IsPrefix(SectionNames(out), <<"ANIMHEAD", "BONENAMES", "ANIMINFO", "ANIMKEYS">>)
           /\ export_pc \in {"close", "finished"} =>
                  /\ Len(out) = 4 + nb + ns + nk
                  /\ IsHeader(1, "ANIMHEAD")
                  /\ IsHeader(2, "BONENAMES")
                  /\ SubSeq(out, 3, 2 + nb) = psa[1].bones
                  /\ IsHeader(3 + nb, "ANIMINFO")
                  /\ SubSeq(out, 4 + nb, 3 + nb + ns) = psa[1].sequences
                  /\ IsHeader(4 + nb + ns, "ANIMKEYS")
                  /\ SubSeq(out, 5 + nb + ns, 4 + nb + ns + nk) = psa[1].keys

\* A file of two bones, two sequences and keys has been written.
C11_Witness ==
    /\ export_pc = "finished"
    /\ Len(psa[1].bones) = 2
    /\ Len(psa[1].sequences) = 2
    /\ Len(psa[1].keys) > 0

\* A file of no bone, sequence or key has been written.
C11_WitnessEmpty ==
    /\ export_pc = "finished"
    /\ psa[1].bones = <<>>
    /\ psa[1].sequences = <<>>
    /\ Len(fp[1]) = 4

\* C12: after a call of write_section the count of the header is the number
\* of records written after it and, when a record type was given, the size of
\* the header is the size of that type; with the type and the records left out
\* the header has size and count zero and no record follows.  For every
\* combination of data_type and data given or left out.
C12_HeaderMatchesRecords ==
    export_pc = "written" =>
        LET c == export_in[1]
            out == fp[1]
        IN /\ out[1].type = "Section"
           /\ out[1].data_count = Len(out) - 1
           /\ c.data_type # None /\ c.data # None =>
                  out[1].data_size = sizeof(c.data_type[1])
           /\ c.data_type = None /\ c.data = None =>
                  out = <<[type |-> "Section", name |-> c.name, data_size |-> 0,
                           data_count |-> 0]>>

\* C13: in PsaExportOperator.execute the file is open or written only after
\* the build returned a Psa; when the build fails (the bone subset holds a bone
\* without its parent) execute ends with one error reported, returns CANCELLED
\* and the file was never opened.
C13_NoFileWithoutBuild ==
    InExecute =>
        /\ fp # None => psa # None /\ ~InvalidBoneSubset(export_in[1])
        /\ InvalidBoneSubset(export_in[1]) /\ export_pc # "execute" =>
               /\ export_pc = "cancelled"
               /\ export_result.returned = Some("CANCELLED")
               /\ Len(export_result.reports) = 1
               /\ export_result.reports[1].type = "ERROR_INVALID_CONTEXT"
               /\ fp = None
               /\ psa = None

\* The export of a child bone without its parent was cancelled.
C13_Witness ==
    /\ export_pc = "cancelled"
    /\ \E k \in export_in[1].bone_subset :
           /\ export_in[1].bones[k].parent # None
           /\ export_in[1].bones[k].parent[1] \notin export_in[1].bone_subset

\* The second call of import_psa has ended, by returning or by raising.
SecondRunEnded == run_count = 2 /\ pc \in {"done", "error"}

\* C14: a second call of import_psa with the same file, armature and options
\* leaves the actions (their f-curves and keyframes) and the NLA tracks as the
\* first call left them, for every should_overwrite, should_write_keyframes
\* and should_stash.
C14_Idempotent ==
    (run_count = 2 /\ pc = "done") =>
        /\ bpy_data_actions = first_run[1].bpy_data_actions
        /\ animation_data = first_run[1].animation_data

\* C14 as amended: with should_overwrite set and should_stash not set the
\* second call leaves the host as the first did, however the calls end.  When
\* both calls return, a second call without should_overwrite has added one
\* action per requested sequence, one with should_overwrite none; one with
\* should_stash has added one NLA track per requested sequence after the
\* tracks of the first, one without should_stash none.
C14_IdempotentWhenOverwriting ==
    SecondRunEnded =>
        LET before == first_run[1]
            tracks(a) == IF a = None THEN <<>> ELSE a[1].nla_tracks
        IN /\ (options.should_overwrite /\ ~options.should_stash) =>
                  /\ bpy_data_actions = before.bpy_data_actions
                  /\ animation_data = before.animation_data
           /\ pc = "done" =>
                  /\ options.should_overwrite =>
                         bpy_data_actions = before.bpy_data_actions
                  /\ ~options.should_overwrite =>
                         /\ Len(bpy_data_actions)
                                = Len(before.bpy_data_actions) + Len(sequences)
                         /\ SubSeq(bpy_data_actions, 1, Len(before.bpy_data_actions))
                                = before.bpy_data_actions
                  /\ ~options.should_stash => animation_data = before.animation_data
                  /\ options.should_stash =>
                         /\ Len(tracks(animation_data))
                                = Len(tracks(before.animation_data)) + Len(sequences)
                         /\ SubSeq(tracks(animation_data), 1,
                                   Len(tracks(before.animation_data)))
                                = tracks(before.animation_data)

\* Two sequences were imported twice over their own actions, keyframes
\* written both times.
C14_Witness ==
    /\ run_count = 2
    /\ pc = "done"
    /\ options.should_overwrite
    /\ ~options.should_stash
    /\ options.should_write_keyframes
    /\ Len(sequences) = 2
    /\ \E k \in DOMAIN actions :
           bpy_data_actions[actions[k]].fcurves # <<>>
               /\ bpy_data_actions[actions[k]].fcurves[1].keyframe_points # <<>>

\* The source bones that are not mapped: no target name matches, or the
\* match was rejected as a duplicate.
UnmappedBones ==
    {k \in DOMAIN psa_reader.bones :
        \/ \A t \in DOMAIN armature_bones : ~NameMatches(k, t)
        \/ DuplicatesOf(k) # {}}

\* import_bones has been filled in.
ImportBonesMade ==
    pc \in {"bind_pose", "progress_begin", "sequence", "fps", "keyframes", "metadata",
            "done"}

\* C15: an unmapped source bone has None at its own index of import_bones,
\* which is as long as the bone list of the file and holds at each other index
\* the ImportBone of that bone of the file; once the keys of a sequence are
\* converted the entries of the unmapped bone in the sequence data matrix are
\* the keys read from the file, for every frame; and the action of every
\* sequence that got keyframes has seven f-curves for each mapped bone and
\* none besides.
C15_UnmappedBonesUntouched ==
    ImportBonesMade =>
        /\ Len(import_bones) = Len(psa_reader.bones)
        /\ \A k \in DOMAIN import_bones :
               /\ k \in UnmappedBones <=> import_bones[k] = None
               /\ import_bones[k] # None =>
                      import_bones[k][1].psa_bone = psa_reader.bones[k]
        /\ (pc = "metadata" /\ options.should_write_keyframes) =>
               LET sequence == sequences[sequence_index]
                   raw == read_sequence_data_matrix(Decode(sequence.name))
                   fcurves == bpy_data_actions[action[1]].fcurves
               IN /\ DOMAIN sequence_data_matrix = 1..sequence.frame_count
                  /\ \A f \in DOMAIN sequence_data_matrix :
                         \A k \in UnmappedBones :
                             sequence_data_matrix[f][k] = raw[f][k]
                  /\ Len(fcurves) = 7 * (Len(psa_reader.bones) - Cardinality(UnmappedBones))
                  /\ \A i \in DOMAIN fcurves :
                         \E k \in DOMAIN import_bones :
                             /\ import_bones[k] # None
                             /\ \E c \in 1..7 : import_bones[k][1].fcurves[c] = i

\* The keys of one frame were converted for a mapped bone while a bone
\* without a match and a bone with a rejected match stay as read.
C15_Witness ==
    /\ pc = "metadata"
    /\ options.should_write_keyframes
    /\ sequences[sequence_index].frame_count > 0
    /\ \E k \in DOMAIN import_bones : import_bones[k] # None
    /\ \E k \in UnmappedBones : DuplicatesOf(k) # {}
    /\ \E k \in UnmappedBones : DuplicatesOf(k) = {}

\* The calls of a name among the progress calls made so far, as positions.
CallsOf(name) == {i \in DOMAIN progress : progress[i].call = name}

\* C16: progress_begin(0, n) is called once for the n requested sequences,
\* then progress_update once per sequence with the indices 0, 1, ... in turn,
\* each after the action of that sequence got its keyframes and metadata, and
\* whenever import_psa is left after progress_begin, by returning or by
\* raising, progress_end has been called last.
C16_ProgressBracketed ==
    /\ progress # <<>> =>
           /\ progress[1] = ProgressCall("progress_begin", 0, Len(sequences))
           /\ CallsOf("progress_begin") = {1}
    /\ \A i \in CallsOf("progress_update") :
           /\ progress[i].a = i - 2
           /\ i - 1 <= Len(actions)
    /\ pc = "done" =>
           /\ Cardinality(CallsOf("progress_update")) = Len(sequences)
           /\ CallsOf("progress_end") = {Len(progress)}
    /\ (pc = "error" /\ progress # <<>>) =>
           progress[Len(progress)].call = "progress_end"

\* C17: when a requested sequence name is not in the file import_psa ends with
\* the KeyError of line 85 as its first step: no warning was produced, no
\* action created or changed, no progress call made and no bone mapped, also
\* when other requested names are in the file.
C17_SequencesResolvedFirst ==
    ((\E name \in Range(options.sequence_names) : name \notin DOMAIN psa_reader.sequences)
         /\ pc # "start") =>
        /\ pc = "error"
        /\ error = Raised("KeyError", 85)
        /\ result.warnings = <<>>
        /\ bpy_data_actions \in {<<>>, <<OldAction>>}
        /\ animation_data = None
        /\ progress = <<>>
        /\ psa_to_armature_bone_indices = <<>>
        /\ import_bones = <<>>

\* A request for a sequence of the file and one that the file does not hold
\* has ended.
C17_Witness ==
    /\ pc = "error"
    /\ Len(options.sequence_names) = 2
    /\ options.sequence_names[1] \in DOMAIN psa_reader.sequences
    /\ options.sequence_names[2] \notin DOMAIN psa_reader.sequences

====
